---------------------------- MODULE Spec2Model ----------------------------
(***************************************************************************)
(* A model of the threat-detection repository:                             *)
(*   - src/lambda/predict.py            lambda_handler (Inference Adapter)  *)
(*   - src/data/scripts/preprocess_data.py   main (Preprocessor)            *)
(*                                                                         *)
(* Text is modelled as a sequence of tokens.  A token is one character     *)
(* ("[", "]", " ", ",") or one well-formed numeric literal; the literals    *)
(* are chosen so that no concatenation of two of them is a numeric literal *)
(* again, which makes the token-level float() agree with Python's float()  *)
(* on the character level.  Floating-point numbers are modelled as         *)
(* fixed-point integers in units of 10^-(Decimals+1), plus NaN.            *)
(***************************************************************************)
EXTENDS Integers, Sequences, FiniteSets, TLC

VARIABLES
    pc,          \* position of lambda_handler
    event,       \* the event the handler was invoked with
    csv_input,   \* line 19: the comma-joined row sent to the endpoint
    service,     \* what the prediction service did when it was invoked
    result,      \* line 29: the decoded, stripped response text
    prediction,  \* lines 34/36: the parsed score
    response,    \* the value the handler returned
    ppc,         \* position of the Preprocessor's main
    train_data,  \* line 36: the frame read from KDDTrain+.txt
    test_data,   \* line 40: the frame read from KDDTest+.txt
    le_train,    \* line 60: the encoders fitted in the call of line 75
    le_test,     \* line 60: the encoders fitted in the call of line 78
    df_train,    \* line 61: the encoded frame in the call of line 75
    df_test,     \* line 61: the encoded frame in the call of line 78
    scaler,      \* line 75: the scaler returned for the training set
    scaler_test, \* line 78: the scaler returned for the test set (bound to _)
    X_train, y_train,   \* line 75
    X_test, y_test,     \* line 78
    val_rows,    \* lines 85-87: the training rows drawn for validation
    written,     \* the keys put into the processed bucket by this run
    tpc,           \* position of automated_training.main
    now,           \* line 161: int(time.time()) of this run
    endpoints,     \* the hosting service: endpoint id -> status
    functions,     \* the Lambda service: the listed function names
    lambda_env,    \* the Lambda service: ENDPOINT_NAME of each function
    lambda_env0,   \* ENDPOINT_NAME of each function before the run
    endpoint_name, \* line 161: the name this run deploys under
    trained,       \* line 138: fit returned
    deployed,      \* line 165: deploy returned
    updated,       \* line 182: the functions this run has reconfigured
    endpoint_info, \* line 203: the endpoint_info.json this run has put
    exit_code,     \* the exit status of the run
    steps          \* the steps of lines 134-209 entered so far, in order

lambdaVars == <<pc, event, csv_input, service, result, prediction, response>>

prepVars ==
    <<ppc, train_data, test_data, le_train, le_test, df_train, df_test, scaler,
      scaler_test, X_train, y_train, X_test, y_test, val_rows, written>>

trainVars ==
    <<tpc, now, endpoints, functions, lambda_env, lambda_env0, endpoint_name,
      trained, deployed, updated, endpoint_info, exit_code, steps>>

vars == <<lambdaVars, prepVars, trainVars>>

(***************************************************************************)
(* Bounds                                                                  *)
(***************************************************************************)
MaxBodyLen == 5         \* longest enumerated prediction-service body
MaxTrainRows == 2       \* most rows of KDDTrain+.txt
MaxTestRows == 2        \* most rows of KDDTest+.txt
MaxFunctions == 2       \* most Lambda functions listed

(***************************************************************************)
(* Numbers                                                                 *)
(***************************************************************************)
Decimals == 4                       \* round(.., 4)
Scale == 10 ^ (Decimals + 1)        \* fixed-point units per 1.0
Threshold == Scale \div 2           \* the 0.5 of line 39

Fin(v) == [nan |-> FALSE, v |-> v]
NaN == [nan |-> TRUE, v |-> 0]

\* x > y on floats: every comparison with NaN is false
FGt(x, y) == ~x.nan /\ ~y.nan /\ x.v > y.v
\* x - y on floats: NaN propagates
FSub(x, y) == IF x.nan \/ y.nan THEN NaN ELSE Fin(x.v - y.v)

\* round(x, 4): nearest multiple of 10^-4, ties to even; NaN stays NaN
Round4(x) ==
    IF x.nan THEN NaN
    ELSE LET step == Scale \div (10 ^ Decimals)
             q == x.v \div step
             r == x.v % step
         IN  IF 2 * r < step THEN Fin(q * step)
             ELSE IF 2 * r > step THEN Fin((q + 1) * step)
             ELSE IF q % 2 = 0 THEN Fin(q * step) ELSE Fin((q + 1) * step)

(***************************************************************************)
(* Text                                                                    *)
(***************************************************************************)
\* numeric literals float() accepts, with their values
Lits == {"0.5", "0.83", "0.12", "0.7", "0.70004", "1.5", "-0.2", "nan"}

LitVal(l) ==
    CASE l = "0.5" -> Fin(50000)
      [] l = "0.83" -> Fin(83000)
      [] l = "0.12" -> Fin(12000)
      [] l = "0.7" -> Fin(70000)
      [] l = "0.70004" -> Fin(70004)
      [] l = "1.5" -> Fin(150000)
      [] l = "-0.2" -> Fin(-20000)
      [] l = "nan" -> NaN

RECURSIVE LStrip(_, _)
LStrip(s, chars) ==
    IF s # <<>> /\ Head(s) \in chars THEN LStrip(Tail(s), chars) ELSE s

RECURSIVE RStrip(_, _)
RStrip(s, chars) ==
    IF s # <<>> /\ s[Len(s)] \in chars
    THEN RStrip(SubSeq(s, 1, Len(s) - 1), chars) ELSE s

\* str.strip(chars): drop every leading and trailing character in chars
PyStrip(s, chars) == RStrip(LStrip(s, chars), chars)

Whitespace == {" "}

StartsWith(s, c) == s # <<>> /\ s[1] = c
EndsWith(s, c) == s # <<>> /\ s[Len(s)] = c

\* float(text): surrounding whitespace is ignored, the rest must be one literal
FloatOk(s) == LET t == PyStrip(s, Whitespace) IN Len(t) = 1 /\ t[1] \in Lits
FloatVal(s) == LitVal(PyStrip(s, Whitespace)[1])

RECURSIVE Join(_, _)
\* sep.join(items), items a sequence of texts
Join(sep, items) ==
    IF items = <<>> THEN <<>>
    ELSE IF Len(items) = 1 THEN items[1]
    ELSE items[1] \o <<sep>> \o Join(sep, Tail(items))


(***************************************************************************)
(* JSON values and the Python operations lambda_handler applies to them    *)
(***************************************************************************)
JNum(text) == [t |-> "num", v |-> <<text>>]       \* v: the tokens of str(x)
JStr(chars) == [t |-> "str", v |-> chars]         \* v: the characters
JList(items) == [t |-> "list", v |-> items]       \* v: the elements
JObj(pairs) == [t |-> "obj", v |-> pairs]         \* v: <<key, value>> pairs
JNull == [t |-> "null", v |-> <<>>]

\* the request bodies the model sends, as JSON text
BodyTexts ==
    { "not json",
      "[1, 2]",
      "{}",
      "{\"features\": null}",
      "{\"features\": 7}",
      "{\"features\": []}",
      "{\"features\": \"ab\"}",
      "{\"features\": [\"x\", 1]}",
      "{\"features\": {\"a\": 1}}",
      "{\"features\": [0.5, 1.2]}" }

JsonOk(text) == text # "not json"

\* json.loads on the texts of BodyTexts
JsonLoads(text) ==
    CASE text = "[1, 2]" -> JList(<<JNum("1"), JNum("2")>>)
      [] text = "{}" -> JObj(<<>>)
      [] text = "{\"features\": null}" -> JObj(<< <<"features", JNull>> >>)
      [] text = "{\"features\": 7}" -> JObj(<< <<"features", JNum("7")>> >>)
      [] text = "{\"features\": []}" -> JObj(<< <<"features", JList(<<>>)>> >>)
      [] text = "{\"features\": \"ab\"}" ->
            JObj(<< <<"features", JStr(<<"a", "b">>)>> >>)
      [] text = "{\"features\": [\"x\", 1]}" ->
            JObj(<< <<"features", JList(<<JStr(<<"x">>), JNum("1")>>)>> >>)
      [] text = "{\"features\": {\"a\": 1}}" ->
            JObj(<< <<"features", JObj(<< <<"a", JNum("1")>> >>)>> >>)
      [] text = "{\"features\": [0.5, 1.2]}" ->
            JObj(<< <<"features", JList(<<JNum("0.5"), JNum("1.2")>>)>> >>)

HasKey(obj, k) == \E i \in 1..Len(obj.v) : obj.v[i][1] = k
GetKey(obj, k) == obj.v[CHOOSE i \in 1..Len(obj.v) : obj.v[i][1] = k][2]

\* iter(x): a list yields its elements, a str its characters, a dict its keys
Iterable(x) == x.t \in {"list", "str", "obj"}
Items(x) ==
    CASE x.t = "list" -> x.v
      [] x.t = "str" -> [i \in 1..Len(x.v) |-> JStr(<<x.v[i]>>)]
      [] x.t = "obj" -> [i \in 1..Len(x.v) |-> JStr(<<x.v[i][1]>>)]

\* str(x) of a scalar element
PyStr(x) == IF x.t = "null" THEN <<"None">> ELSE x.v

\* line 19: ','.join(map(str, features))
CsvInput(features) ==
    Join(",", [i \in 1..Len(Items(features)) |-> PyStr(Items(features)[i])])

(***************************************************************************)
(* Exceptions and the two response envelopes                               *)
(***************************************************************************)
Exc(cls, msg) == [cls |-> cls, msg |-> msg]

\* the classes of the exceptions the body of try raises; each derives from
\* Exception
ExceptionClasses ==
    {"KeyError", "JSONDecodeError", "TypeError", "ClientError",
     "UnicodeDecodeError", "ValueError"}

\* a handler that catches KeyError alone
CatchesKeyErrorOnly(e) == e.cls = "KeyError"

\* line 57: except Exception
Catches(e) == e.cls \in ExceptionClasses

\* lines 44-48: the headers of the verdict
VerdictHeaders ==
    ("Access-Control-Allow-Origin" :> "*")
    @@ ("Access-Control-Allow-Headers" :> "Content-Type")
    @@ ("Access-Control-Allow-Methods" :> "POST, OPTIONS")

\* lines 60-64: the headers of the error envelope
ErrorHeaders ==
    ("Access-Control-Allow-Origin" :> "*")
    @@ ("Access-Control-Allow-Headers" :> "Content-Type")
    @@ ("Access-Control-Allow-Methods" :> "POST, OPTIONS")

\* lines 58-69
ErrorEnvelope(e) ==
    [ statusCode |-> 500,
      headers |-> ErrorHeaders,
      body |-> [error |-> e.msg,
                message |-> "Error processing prediction request"] ]

\* a threshold test that counts 0.5 itself as a threat
ThreatDetectedAtLeast(p) ==
    IF FGt(p, Fin(Threshold)) \/ p = Fin(Threshold) THEN 1 ELSE 0

\* line 39
ThreatDetected(p) == IF FGt(p, Fin(Threshold)) THEN 1 ELSE 0

\* line 40
Confidence(p) == IF ThreatDetected(p) = 1 THEN p ELSE FSub(Fin(Scale), p)

\* lines 42-55
Verdict(p) ==
    [ statusCode |-> 200,
      headers |-> VerdictHeaders,
      body |-> [prediction |-> ThreatDetected(p),
                confidence |-> Round4(Confidence(p)),
                status |-> IF ThreatDetected(p) = 1 THEN "Attack Detected"
                           ELSE "Normal Traffic",
                raw_score |-> Round4(p)] ]

\* a normalisation that strips the brackets on the left only
NormalizedLeftOnly(res) ==
    IF StartsWith(res, "[") /\ EndsWith(res, "]")
    THEN LStrip(res, {"[", "]"})
    ELSE res

\* lines 32-36: the text float() is applied to
Normalized(res) ==
    IF StartsWith(res, "[") /\ EndsWith(res, "]")
    THEN PyStrip(res, {"[", "]"})
    ELSE res

(***************************************************************************)
(* The environment of one invocation                                       *)
(***************************************************************************)
Events ==
    {[has_body |-> FALSE, body |-> ""]}
    \cup {[has_body |-> TRUE, body |-> b] : b \in BodyTexts}

WireToks == {"[", "]", " ", ",", "0.7"}

RECURSIVE TextsUpTo(_, _)
TextsUpTo(toks, n) ==
    IF n = 0 THEN {<<>>}
    ELSE LET shorter == TextsUpTo(toks, n - 1)
         IN  shorter \cup {Append(s, c) : s \in shorter, c \in toks}

\* response bodies: every text over WireToks up to MaxBodyLen, and every
\* literal in its bare and in its bracketed form
ServiceBodies ==
    TextsUpTo(WireToks, MaxBodyLen)
    \cup {<<l>> : l \in Lits} \cup {<<"[", l, "]">> : l \in Lits}

\* what invoke_endpoint and response['Body'].read().decode() can do
ServiceOutcomes ==
    {[kind |-> "raises", body |-> <<>>], [kind |-> "undecodable", body |-> <<>>]}
    \cup {[kind |-> "answers", body |-> b] : b \in ServiceBodies}

NotInvoked == [kind |-> "not invoked", body |-> <<>>]
NoResponse == [statusCode |-> 0, headers |-> <<>>, body |-> <<>>]

(***************************************************************************)
(* lambda_handler                                                          *)
(***************************************************************************)
NoEndpoint == 0

TrainIdle ==
    /\ tpc = "idle"
    /\ now = 0
    /\ endpoints = <<>>
    /\ functions = <<>>
    /\ lambda_env = <<>>
    /\ lambda_env0 = <<>>
    /\ endpoint_name = NoEndpoint
    /\ trained = FALSE
    /\ deployed = FALSE
    /\ updated = {}
    /\ endpoint_info = NoEndpoint
    /\ exit_code = -1
    /\ steps = <<>>

PrepIdle ==
    /\ ppc = "idle"
    /\ train_data = <<>> /\ test_data = <<>>
    /\ le_train = <<>> /\ le_test = <<>>
    /\ df_train = <<>> /\ df_test = <<>>
    /\ scaler = <<>> /\ scaler_test = <<>>
    /\ X_train = <<>> /\ y_train = <<>>
    /\ X_test = <<>> /\ y_test = <<>>
    /\ val_rows = {}
    /\ written = {}

InitLambda ==
    /\ PrepIdle
    /\ TrainIdle
    /\ pc = "start"
    /\ event \in Events
    /\ csv_input = <<>>
    /\ service = NotInvoked
    /\ result = <<>>
    /\ prediction = NaN
    /\ response = NoResponse

\* an exception raised inside the try block: caught at line 57 and turned into
\* the envelope of lines 58-69, or it leaves the handler
Raise(e) ==
    IF Catches(e)
    THEN /\ pc' = "returned"
         /\ response' = ErrorEnvelope(e)
    ELSE /\ pc' = "raised"
         /\ response' = response

\* the exception lines 8-19 raise on the event, if any
RequestError(ev) ==
    IF ~ev.has_body THEN Exc("KeyError", "'body'")
    ELSE IF ~JsonOk(ev.body) THEN Exc("JSONDecodeError", "Expecting value")
    ELSE LET body == JsonLoads(ev.body) IN
         IF body.t # "obj" THEN Exc("TypeError", "bad subscript")
         ELSE IF ~HasKey(body, "features") THEN Exc("KeyError", "'features'")
         ELSE IF ~Iterable(GetKey(body, "features"))
              THEN Exc("TypeError", "object is not iterable")
         ELSE Exc("", "")

\* lines 8-19
ParseRequest ==
    /\ pc = "start"
    /\ IF RequestError(event).cls # ""
       THEN /\ Raise(RequestError(event))
            /\ UNCHANGED csv_input
       ELSE /\ csv_input' = CsvInput(GetKey(JsonLoads(event.body), "features"))
            /\ pc' = "invoke"
            /\ response' = response
    /\ UNCHANGED <<event, service, result, prediction>>
    /\ UNCHANGED prepVars
    /\ UNCHANGED trainVars

\* lines 22-29
InvokeEndpoint ==
    /\ pc = "invoke"
    /\ \E o \in ServiceOutcomes :
        /\ service' = o
        /\ CASE o.kind = "raises" ->
                  /\ Raise(Exc("ClientError", "could not invoke endpoint"))
                  /\ UNCHANGED result
             [] o.kind = "undecodable" ->
                  /\ Raise(Exc("UnicodeDecodeError", "can't decode byte"))
                  /\ UNCHANGED result
             [] o.kind = "answers" ->
                  /\ result' = PyStrip(o.body, Whitespace)
                  /\ pc' = "parse"
                  /\ response' = response
    /\ UNCHANGED <<event, csv_input, prediction>>
    /\ UNCHANGED prepVars
    /\ UNCHANGED trainVars

\* lines 32-36
ParsePrediction ==
    /\ pc = "parse"
    /\ IF FloatOk(Normalized(result))
       THEN /\ prediction' = FloatVal(Normalized(result))
            /\ pc' = "classify"
            /\ response' = response
       ELSE /\ Raise(Exc("ValueError", "could not convert string to float"))
            /\ UNCHANGED prediction
    /\ UNCHANGED <<event, csv_input, service, result>>
    /\ UNCHANGED prepVars
    /\ UNCHANGED trainVars

\* lines 39-55
ReturnVerdict ==
    /\ pc = "classify"
    /\ response' = Verdict(prediction)
    /\ pc' = "returned"
    /\ UNCHANGED <<event, csv_input, service, result, prediction>>
    /\ UNCHANGED prepVars
    /\ UNCHANGED trainVars

NextLambda == ParseRequest \/ InvokeEndpoint \/ ParsePrediction \/ ReturnVerdict

Spec == InitLambda /\ [][NextLambda]_vars

(***************************************************************************)
(* The Preprocessor: src/data/scripts/preprocess_data.py                   *)
(*                                                                         *)
(* A raw record keeps the three categorical columns, one numeric column    *)
(* (duration), the label and the difficulty score.                         *)
(***************************************************************************)
categorical_features == {"protocol_type", "service", "flag"}
FeatureCols == {"duration"} \cup categorical_features

Raw(p, s, f, d, l) ==
    [ duration |-> d, protocol_type |-> p, service |-> s, flag |-> f,
      label |-> l, difficulty |-> 21 ]

\* the records the raw datasets are drawn from
RawRows ==
    { Raw("udp", "http", "SF", 0, "normal"),
      Raw("tcp", "ftp", "SF", 2, "normal"),
      Raw("icmp", "http", "REJ", 2, "neptune"),
      Raw("tcp", "http", "S0", 4, "normal") }

\* the order of Python's str comparison on the values that occur
Alphabetical == <<"REJ", "S0", "SF", "ftp", "http", "icmp", "tcp", "udp">>
Rank(v) == CHOOSE i \in 1..Len(Alphabetical) : Alphabetical[i] = v

Column(df, c) == [i \in 1..Len(df) |-> df[i][c]]
Range(col) == {col[i] : i \in 1..Len(col)}

RECURSIVE SortedSeq(_)
SortedSeq(S) ==
    IF S = {} THEN <<>>
    ELSE LET m == CHOOSE x \in S : \A y \in S : Rank(x) <= Rank(y)
         IN  <<m>> \o SortedSeq(S \ {m})

RECURSIVE FirstSeenSeq(_)
FirstSeenSeq(col) ==
    IF col = <<>> THEN <<>>
    ELSE LET front == FirstSeenSeq(SubSeq(col, 1, Len(col) - 1))
             last == col[Len(col)]
         IN  IF last \in Range(front) THEN front ELSE Append(front, last)

\* a LabelEncoder that numbers the values as they are first met
FitFirstSeen(col) == FirstSeenSeq(col)

\* LabelEncoder.fit: classes_ is the sorted array of the distinct values
LabelEncoderFit(col) == SortedSeq(Range(col))

\* LabelEncoder.transform of one value: its index in classes_
LabelEncoderTransform(classes, v) ==
    (CHOOSE i \in 1..Len(classes) : classes[i] = v) - 1

RECURSIVE SumSeq(_)
SumSeq(col) == IF col = <<>> THEN 0 ELSE Head(col) + SumSeq(Tail(col))

\* StandardScaler.fit on one column: the sample count, sum and sum of squares
\* that give mean_ = sum / n and var_ = (n * sumsq - sum^2) / n^2
ScalerFit(col) ==
    [ n |-> Len(col),
      sum |-> SumSeq(col),
      sumsq |-> SumSeq([i \in 1..Len(col) |-> col[i] * col[i]]) ]

\* StandardScaler.transform of one value, (x - mean_) / scale_, kept exact as
\* num / sqrt(den2); a zero variance makes scale_ 1
ScalerTransform(st, x) ==
    LET nvar == st.n * st.sumsq - st.sum * st.sum
    IN  [ num |-> st.n * x - st.sum,
          den2 |-> IF nvar = 0 THEN st.n * st.n ELSE nvar ]

\* lines 46-71: preprocess_data(df) on a frame with at least one row
preprocess_data(df) ==
    LET \* lines 59-61
        le == [f \in categorical_features |-> LabelEncoderFit(Column(df, f))]
        enc == [i \in 1..Len(df) |->
                  [c \in FeatureCols |->
                     IF c \in categorical_features
                     THEN LabelEncoderTransform(le[c], df[i][c])
                     ELSE df[i][c]]]
        \* line 54
        y == [i \in 1..Len(df) |-> IF df[i].label = "normal" THEN 0 ELSE 1]
        \* lines 68-69
        sc == [c \in FeatureCols |-> ScalerFit(Column(enc, c))]
        X == [i \in 1..Len(df) |->
                [c \in FeatureCols |-> ScalerTransform(sc[c], enc[i][c])]]
    IN  [le |-> le, df |-> enc, X |-> X, y |-> y, scaler |-> sc]

\* line 69: StandardScaler.fit_transform refuses a frame without rows
PreprocessRaises(df) == Len(df) = 0

\* lines 85-87: the sizes train_test_split(test_size=0.2) computes
NTest(n) == (n + 4) \div 5
NTrain(n) == n - NTest(n)

CountOf(y, c) == Cardinality({i \in 1..Len(y) : y[i] = c})

\* lines 85-87: the stratified split refuses these label vectors
SplitRaises(y) ==
    LET n == Len(y)
        classes == Range(y)
    IN  \/ NTrain(n) = 0
        \/ \E c \in classes : CountOf(y, c) < 2
        \/ NTrain(n) < Cardinality(classes)
        \/ NTest(n) < Cardinality(classes)

\* lines 85-87: the draws of validation rows a stratified split can make
Splits(y) ==
    LET n == Len(y)
    IN  { V \in SUBSET (1..n) :
            /\ Cardinality(V) = NTest(n)
            /\ \A c \in Range(y) :
                 LET k == Cardinality({i \in V : y[i] = c})
                     share == NTest(n) * CountOf(y, c)
                 IN  k * n <= share + n - 1 /\ k * n >= share - n + 1 }

RECURSIVE SeqsUpTo(_, _)
SeqsUpTo(S, n) ==
    IF n = 0 THEN {<<>>}
    ELSE LET shorter == SeqsUpTo(S, n - 1)
         IN  shorter \cup {Append(q, x) : q \in shorter, x \in S}

OutputKeys ==
    {"train/train.csv", "validation/validation.csv", "test/test.csv",
     "feature_info.json"}

LambdaIdle ==
    /\ pc = "idle"
    /\ event = [has_body |-> FALSE, body |-> ""]
    /\ csv_input = <<>>
    /\ service = NotInvoked
    /\ result = <<>>
    /\ prediction = NaN
    /\ response = NoResponse

InitPrep ==
    /\ LambdaIdle
    /\ TrainIdle
    /\ ppc = "load"
    /\ train_data \in SeqsUpTo(RawRows, MaxTrainRows)
    /\ test_data \in SeqsUpTo(RawRows, MaxTestRows)
    /\ le_train = <<>> /\ le_test = <<>>
    /\ df_train = <<>> /\ df_test = <<>>
    /\ scaler = <<>> /\ scaler_test = <<>>
    /\ X_train = <<>> /\ y_train = <<>>
    /\ X_test = <<>> /\ y_test = <<>>
    /\ val_rows = {}
    /\ written = {}

\* an uncaught exception ends main
Abort == ppc' = "aborted"

\* lines 35-40: both objects are read, or get_object raises
LoadData ==
    /\ ppc = "load"
    /\ \E ok \in BOOLEAN : IF ok THEN ppc' = "prep_train" ELSE Abort
    /\ UNCHANGED <<train_data, test_data, le_train, le_test, df_train, df_test,
                   scaler, scaler_test, X_train, y_train, X_test, y_test,
                   val_rows, written>>
    /\ UNCHANGED lambdaVars
    /\ UNCHANGED trainVars

\* line 75
PreprocessTrain ==
    /\ ppc = "prep_train"
    /\ IF PreprocessRaises(train_data)
       THEN /\ Abort
            /\ UNCHANGED <<le_train, df_train, scaler, X_train, y_train>>
       ELSE LET r == preprocess_data(train_data) IN
            /\ le_train' = r.le
            /\ df_train' = r.df
            /\ X_train' = r.X
            /\ y_train' = r.y
            /\ scaler' = r.scaler
            /\ ppc' = "prep_test"
    /\ UNCHANGED <<train_data, test_data, le_test, df_test, scaler_test,
                   X_test, y_test, val_rows, written>>
    /\ UNCHANGED lambdaVars
    /\ UNCHANGED trainVars

\* line 78
PreprocessTest ==
    /\ ppc = "prep_test"
    /\ IF PreprocessRaises(test_data)
       THEN /\ Abort
            /\ UNCHANGED <<le_test, df_test, scaler_test, X_test, y_test>>
       ELSE LET r == preprocess_data(test_data) IN
            /\ le_test' = r.le
            /\ df_test' = r.df
            /\ X_test' = r.X
            /\ y_test' = r.y
            /\ scaler_test' = r.scaler
            /\ ppc' = "split"
    /\ UNCHANGED <<train_data, test_data, le_train, df_train, scaler,
                   X_train, y_train, val_rows, written>>
    /\ UNCHANGED lambdaVars
    /\ UNCHANGED trainVars

\* lines 85-90
Split ==
    /\ ppc = "split"
    /\ IF SplitRaises(y_train)
       THEN /\ Abort
            /\ UNCHANGED val_rows
       ELSE /\ val_rows' \in Splits(y_train)
            /\ ppc' = "put_train"
    /\ UNCHANGED <<train_data, test_data, le_train, le_test, df_train, df_test,
                   scaler, scaler_test, X_train, y_train, X_test, y_test,
                   written>>
    /\ UNCHANGED lambdaVars
    /\ UNCHANGED trainVars

\* s3.put_object(Key=key): the object is stored, or the call raises
PutObject(at, key, then) ==
    /\ ppc = at
    /\ \E ok \in BOOLEAN :
         IF ok THEN /\ written' = written \cup {key}
                    /\ ppc' = then
         ELSE /\ Abort
              /\ UNCHANGED written
    /\ UNCHANGED <<train_data, test_data, le_train, le_test, df_train, df_test,
                   scaler, scaler_test, X_train, y_train, X_test, y_test,
                   val_rows>>
    /\ UNCHANGED lambdaVars
    /\ UNCHANGED trainVars

\* lines 93-96
UploadTrain == PutObject("put_train", "train/train.csv", "put_val")

\* lines 98-101
UploadValidation == PutObject("put_val", "validation/validation.csv", "put_test")

\* lines 103-106
UploadTest == PutObject("put_test", "test/test.csv", "put_info")

\* lines 108-119
UploadFeatureInfo == PutObject("put_info", "feature_info.json", "done")

NextPrep ==
    \/ LoadData
    \/ PreprocessTrain
    \/ PreprocessTest
    \/ Split
    \/ UploadTrain
    \/ UploadValidation
    \/ UploadTest
    \/ UploadFeatureInfo

SpecPrep == InitPrep /\ [][NextPrep]_vars

(***************************************************************************)
(* Properties of lambda_handler (checked under Spec)                       *)
(***************************************************************************)
Returned == pc = "returned"
Succeeded == Returned /\ response.statusCode = 200
Failed == Returned /\ response.statusCode = 500

PermissiveCors ==
    ("Access-Control-Allow-Origin" :> "*")
    @@ ("Access-Control-Allow-Headers" :> "Content-Type")
    @@ ("Access-Control-Allow-Methods" :> "POST, OPTIONS")

IsVerdict(r) ==
    /\ r.statusCode = 200
    /\ DOMAIN r.body = {"prediction", "confidence", "status", "raw_score"}

IsFailure(r) ==
    /\ r.statusCode = 500
    /\ DOMAIN r.body = {"error", "message"}

\* C1: whatever the event, whatever the prediction service does and whatever
\* body it returns, no exception leaves lambda_handler, every step of the
\* handler that has not returned can go on, and what it returns is a
\* status-200 verdict or a status-500 envelope with the keys error and
\* message, both with the same cross-origin headers.
C1_AlwaysAnEnvelope ==
    /\ pc # "raised"
    /\ pc \in {"start", "invoke", "parse", "classify"} => ENABLED NextLambda
    /\ Returned =>
         /\ IsVerdict(response) \/ IsFailure(response)
         /\ response.headers = PermissiveCors

\* C1 happens: a request body without the features key got the failure envelope
C1_Witness ==
    /\ Failed
    /\ event.has_body /\ event.body = "{}"
    /\ response.body.error = "'features'"

\* C2: for every parsed probability p the verdict has prediction = 1 iff
\* p > 0.5, status 'Attack Detected' iff prediction = 1 and 'Normal Traffic'
\* otherwise, and its confidence is round(p, 4) when prediction = 1 and
\* round(1 - p, 4) when prediction = 0.
C2_ThresholdAndConfidence ==
    (Succeeded /\ ~prediction.nan) =>
        LET p == prediction.v
            b == response.body
        IN  /\ b.prediction \in {0, 1}
            /\ b.prediction = 1 <=> p > Threshold
            /\ b.status = IF b.prediction = 1 THEN "Attack Detected"
                          ELSE "Normal Traffic"
            /\ b.confidence =
                 Round4(Fin(IF b.prediction = 1 THEN p ELSE Scale - p))

\* C2 happens: the service answered 0.5 exactly and the verdict is 0 with
\* confidence 0.5
C2_Witness ==
    /\ Succeeded
    /\ prediction = Fin(Threshold)
    /\ response.body.prediction = 0
    /\ response.body.status = "Normal Traffic"
    /\ response.body.confidence = Fin(Threshold)

InvalidRequest(ev) ==
    \/ ~ev.has_body
    \/ ~JsonOk(ev.body)
    \/ LET body == JsonLoads(ev.body) IN
       \/ body.t # "obj"
       \/ ~HasKey(body, "features")
       \/ LET features == GetKey(body, "features") IN
          \/ features.t # "list"
          \/ features.v = <<>>
          \/ \E i \in 1..Len(features.v) : features.v[i].t # "num"

\* C3: every request whose body is unparseable, or whose features field is
\* missing, empty, not a sequence or holds an element that is not a number,
\* gets the failure envelope and never a status-200 verdict.
C3_RejectsInvalidRequests == (Returned /\ InvalidRequest(event)) => Failed

InUnitInterval(x) == ~x.nan /\ 0 <= x.v /\ x.v <= Scale

\* C8: every status-200 response has prediction in {0, 1} and both confidence
\* and raw_score inside [0, 1], for every number the service may return.
C8_ScoresInUnitInterval ==
    (Succeeded /\ ~prediction.nan) =>
        /\ response.body.prediction \in {0, 1}
        /\ InUnitInterval(response.body.confidence)
        /\ InUnitInterval(response.body.raw_score)

\* the text is [x] for the literal x, whitespace around x and around the
\* brackets ignored
BracketedLiteral(text, x) ==
    LET t == PyStrip(text, Whitespace)
    IN  /\ Len(t) >= 3
        /\ t[1] = "[" /\ t[Len(t)] = "]"
        /\ PyStrip(SubSeq(t, 2, Len(t) - 1), Whitespace) = <<x>>

BareLiteral(text, x) == PyStrip(text, Whitespace) = <<x>>

\* what the handler returns when the service answers the bare literal x
BareResponse(x) == Verdict(FloatVal(Normalized(<<x>>)))

\* C9: for every number x, the response to the bracketed form [x] is the
\* response to the bare form x: prediction, confidence, status and raw_score
\* are equal.
C9_BracketedSameAsBare ==
    \A x \in Lits :
        (Returned /\ service.kind = "answers"
                  /\ (\/ BracketedLiteral(service.body, x)
                      \/ BareLiteral(service.body, x)))
            => response = BareResponse(x)

\* C9 happens: the service answered [0.12] and the verdict is that of 0.12
C9_Witness ==
    /\ Succeeded
    /\ service.body = <<"[", "0.12", "]">>
    /\ response.body.prediction = 0
    /\ response.body.confidence = Fin(88000)
    /\ response.body.raw_score = Fin(12000)

AcceptedShape(text) ==
    \E x \in Lits : BareLiteral(text, x) \/ BracketedLiteral(text, x)

\* C10: every service body that is neither a bare scalar nor a single-element
\* bracketed list gets the failure envelope and never a status-200 verdict.
C10_OnlyTwoWireShapes ==
    (Returned /\ service.kind = "answers" /\ ~AcceptedShape(service.body))
        => Failed

(***************************************************************************)
(* Properties of the Preprocessor (checked under SpecPrep)                 *)
(***************************************************************************)
TrainPreprocessed ==
    ppc \in {"prep_test", "split", "put_train", "put_val", "put_test",
             "put_info", "done"}
TestPreprocessed ==
    ppc \in {"split", "put_train", "put_val", "put_test", "put_info", "done"}

TrainValues(f) == Range(Column(train_data, f))

\* C4: the codes and the scaling applied to the test rows are those fitted on
\* the training rows: a test value of the training vocabulary gets its
\* training code, and every test cell is scaled with the training mean and
\* standard deviation.
C4_TestUsesTrainingFit ==
    TestPreprocessed =>
        /\ \A i \in 1..Len(test_data) : \A f \in categorical_features :
             test_data[i][f] \in TrainValues(f) =>
               df_test[i][f] = LabelEncoderTransform(le_train[f], test_data[i][f])
        /\ \A i \in 1..Len(test_data) : \A c \in FeatureCols :
             X_test[i][c] = ScalerTransform(scaler[c], df_test[i][c])

\* C5: a run that aborts has written none of the four output objects, a run
\* that completes has written all four, and a run on an empty raw dataset
\* ends in an error with nothing written.
C5_NoPartialPublish ==
    /\ ppc = "aborted" => written = {}
    /\ ppc = "done" => written = OutputKeys
    /\ train_data = <<>> =>
         written = {} /\ ppc \in {"load", "prep_train", "aborted"}
    /\ test_data = <<>> =>
         written = {} /\ ppc \in {"load", "prep_train", "prep_test", "aborted"}

\* the number of distinct values met before the first occurrence of col[i]
FirstSeenCode(col, i) ==
    LET first == CHOOSE j \in 1..Len(col) :
                    col[j] = col[i] /\ \A k \in 1..(j - 1) : col[k] # col[i]
    IN  Cardinality({col[k] : k \in 1..(first - 1)})

\* the number of distinct values that sort before col[i]
SortedCode(col, i) ==
    Cardinality({v \in Range(col) : Rank(v) < Rank(col[i])})

UnseenInTest ==
    \E i \in 1..Len(test_data) : \E f \in categorical_features :
        test_data[i][f] \notin TrainValues(f)

\* C7: when a test row holds a categorical value that the training set does
\* not, the run aborts: it never gets past the preprocessing of the test set.
C7_UnseenCategoryAborts ==
    (UnseenInTest /\ ppc \notin {"load", "prep_train", "prep_test"})
        => ppc = "aborted"

(***************************************************************************)
(* The training run: src/scripts/automated_training.py, main               *)
(*                                                                         *)
(* The endpoint named threat-detection-endpoint-<t> is the integer t.  A   *)
(* function name is a sequence of pieces; 'sub in name' is the occurrence  *)
(* of the piece.                                                           *)
(***************************************************************************)
EndpointIds == {1, 2, 3}
EndpointStatuses == {"absent", "InService", "Creating", "Failed"}

FunctionNames ==
    { <<"threat-detection-predict">>,
      <<"dev-", "threat-detection-predict">>,
      <<"billing-report">> }

\* line 181: 'threat-detection-predict' in func['FunctionName']
NameContains(name, piece) == \E i \in 1..Len(name) : name[i] = piece

\* lines 180-181: the first listed function whose name matches, 0 if none
FirstMatch(fs) ==
    IF \E i \in 1..Len(fs) : NameContains(fs[i], "threat-detection-predict")
    THEN CHOOSE i \in 1..Len(fs) :
            /\ NameContains(fs[i], "threat-detection-predict")
            /\ \A j \in 1..(i - 1) :
                 ~NameContains(fs[j], "threat-detection-predict")
    ELSE 0

InitTrain ==
    /\ LambdaIdle
    /\ PrepIdle
    /\ tpc = "start"
    /\ now \in {2, 3}
    /\ endpoints \in [EndpointIds -> EndpointStatuses]
    /\ endpoints[3] = "absent"
    /\ functions \in SeqsUpTo(FunctionNames, MaxFunctions)
    /\ \E old \in {NoEndpoint, 1} :
         lambda_env = [i \in 1..Len(functions) |-> old]
    /\ lambda_env0 = lambda_env
    /\ endpoint_name = NoEndpoint
    /\ trained = FALSE
    /\ deployed = FALSE
    /\ updated = {}
    /\ endpoint_info = NoEndpoint
    /\ exit_code = -1
    /\ steps = <<>>

\* sys.exit(code)
Exit(code) == tpc' = "exited" /\ exit_code' = code

\* a deployment whose failure is only warned about, as the cleanup's is
AfterDeployWarnOnly(ok) == "update_lambda"

\* lines 142-144: a failed fit ends the run
AfterTrain(ok) == IF ok THEN "cleanup" ELSE "exit"

\* lines 171-173: a failed deploy ends the run
AfterDeploy(ok) == IF ok THEN "update_lambda" ELSE "exit"

\* the run goes on at position next, or exits with code 1
GoOn(next) ==
    IF next = "exit" THEN Exit(1) ELSE tpc' = next /\ exit_code' = exit_code

\* lines 59-132: clients, role, bucket, training data, container, estimator;
\* each failure exits with code 1
Setup ==
    /\ tpc = "start"
    /\ \E ok \in BOOLEAN : GoOn(IF ok THEN "train" ELSE "exit")
    /\ UNCHANGED <<now, endpoints, functions, lambda_env, lambda_env0,
                   endpoint_name, trained, deployed, updated, endpoint_info,
                   steps>>
    /\ UNCHANGED <<lambdaVars, prepVars>>

\* lines 134-144
Train ==
    /\ tpc = "train"
    /\ steps' = Append(steps, "train")
    /\ \E ok \in BOOLEAN :
         /\ trained' = ok
         /\ GoOn(AfterTrain(ok))
    /\ UNCHANGED <<now, endpoints, functions, lambda_env, lambda_env0,
                   endpoint_name, deployed, updated, endpoint_info>>
    /\ UNCHANGED <<lambdaVars, prepVars>>

\* lines 146-158: the InService endpoints are deleted one by one; an error of
\* list_endpoints or delete_endpoint ends the loop with a warning, so any part
\* of them may be left
CleanUpEndpoints ==
    /\ tpc = "cleanup"
    /\ steps' = Append(steps, "delete")
    /\ \E D \in SUBSET {e \in EndpointIds : endpoints[e] = "InService"} :
         endpoints' = [e \in EndpointIds |->
                         IF e \in D THEN "absent" ELSE endpoints[e]]
    /\ tpc' = "deploy"
    /\ UNCHANGED <<now, functions, lambda_env, lambda_env0, endpoint_name,
                   trained, deployed, updated, endpoint_info, exit_code>>
    /\ UNCHANGED <<lambdaVars, prepVars>>

\* lines 160-173: deploy succeeds only under a name that is free; a failed
\* deploy may leave a Failed endpoint behind
Deploy ==
    /\ tpc = "deploy"
    /\ steps' = Append(steps, "deploy")
    /\ endpoint_name' = now
    /\ \E ok \in {TRUE, FALSE} :
         /\ ok => endpoints[now] = "absent"
         /\ deployed' = ok
         /\ IF ok
            THEN endpoints' = [endpoints EXCEPT ![now] = "InService"]
            ELSE \E left \in {endpoints[now], "Failed"} :
                    endpoints' = [endpoints EXCEPT ![now] = left]
         /\ GoOn(AfterDeploy(ok))
    /\ UNCHANGED <<now, functions, lambda_env, lambda_env0, trained, updated,
                   endpoint_info>>
    /\ UNCHANGED <<lambdaVars, prepVars>>

\* lines 175-193: the first matching function gets ENDPOINT_NAME; an error of
\* list_functions or update_function_configuration is only warned about
UpdateLambda ==
    /\ tpc = "update_lambda"
    /\ steps' = Append(steps, "update_lambda")
    /\ \E ok \in BOOLEAN :
         IF ok /\ FirstMatch(functions) # 0
         THEN /\ lambda_env' =
                   [lambda_env EXCEPT ![FirstMatch(functions)] = endpoint_name]
              /\ updated' = updated \cup {FirstMatch(functions)}
         ELSE UNCHANGED <<lambda_env, updated>>
    /\ tpc' = "save_info"
    /\ UNCHANGED <<now, endpoints, functions, lambda_env0, endpoint_name,
                   trained, deployed, endpoint_info, exit_code>>
    /\ UNCHANGED <<lambdaVars, prepVars>>

\* lines 195-213: endpoint_info.json is put, or the error is warned about;
\* main returns
SaveEndpointInfo ==
    /\ tpc = "save_info"
    /\ steps' = Append(steps, "write_info")
    /\ \E ok \in BOOLEAN :
         endpoint_info' = IF ok THEN endpoint_name ELSE endpoint_info
    /\ Exit(0)
    /\ UNCHANGED <<now, endpoints, functions, lambda_env, lambda_env0,
                   endpoint_name, trained, deployed, updated>>
    /\ UNCHANGED <<lambdaVars, prepVars>>

NextTrain ==
    \/ Setup
    \/ Train
    \/ CleanUpEndpoints
    \/ Deploy
    \/ UpdateLambda
    \/ SaveEndpointInfo

SpecTrain == InitTrain /\ [][NextTrain]_vars

(***************************************************************************)
(* Properties of the training run (checked under SpecTrain)                *)
(***************************************************************************)
StepOrder == <<"train", "delete", "deploy", "update_lambda", "write_info">>

\* C11: the steps are entered in the order train, delete, deploy, update
\* Lambda, write endpoint_info.json; the last two are entered only after
\* deploy returned; a run whose training or deployment failed exits with
\* code 1, has changed no function's ENDPOINT_NAME and has written no
\* endpoint_info.json; and a changed ENDPOINT_NAME, like a written
\* endpoint_info.json, holds the name of the endpoint this run deployed,
\* which is in service.
C11_StepsInOrder ==
    /\ Len(steps) <= Len(StepOrder)
    /\ steps = SubSeq(StepOrder, 1, Len(steps))
    /\ Len(steps) >= 2 => trained
    /\ Len(steps) >= 4 => deployed
    /\ (tpc = "exited" /\ ~(trained /\ deployed)) =>
         /\ exit_code = 1
         /\ lambda_env = lambda_env0
         /\ updated = {}
         /\ endpoint_info = NoEndpoint
    /\ \A f \in 1..Len(functions) :
         IF f \in updated
         THEN /\ deployed
              /\ lambda_env[f] = endpoint_name
              /\ endpoint_name = now
              /\ endpoints[endpoint_name] = "InService"
         ELSE lambda_env[f] = lambda_env0[f]
    /\ endpoint_info # NoEndpoint =>
         deployed /\ endpoint_info = endpoint_name

\* C11 happens: a run went through all five steps and the matching function
\* now names the new endpoint
C11_Witness ==
    /\ tpc = "exited" /\ exit_code = 0
    /\ steps = StepOrder
    /\ updated # {}
    /\ \E f \in updated : lambda_env[f] = now /\ lambda_env0[f] # now
    /\ endpoint_info = now

\* C11 happens: deployment failed and the run exited with code 1, the
\* function untouched
C11_WitnessDeployFailed ==
    /\ tpc = "exited" /\ exit_code = 1
    /\ steps = <<"train", "delete", "deploy">>
    /\ trained /\ ~deployed
    /\ Len(functions) > 0 /\ FirstMatch(functions) # 0
    /\ lambda_env = lambda_env0

=============================================================================
